---- MODULE Spec2Model ----
(***************************************************************************)
(* ESP32 precision reciprocal counter and pulse generator.                 *)
(*                                                                         *)
(* Two sketches are modelled: the counter/generator sketch ("generator")   *)
(* and the counter with selectable gate time ("gatetime").  The variable   *)
(* variant says which one runs.                                            *)
(*                                                                         *)
(* The measurement part (gate window, the two pulse counters, the overflow *)
(* interrupt, the gate-fall interrupt and the part of loop() that consumes *)
(* a reading) and the user-interface part (rotary encoder, button, duty    *)
(* cycle, waveform driver) of loop() work on disjoint variables.  They are *)
(* explored by two specifications, Spec and SpecGen; SpecEst applies the   *)
(* consuming part of loop() to a set of given readings, and SpecTimer      *)
(* explores the gate timer.                                                *)
(***************************************************************************)
EXTENDS Integers, Sequences, FiniteSets, TLC

----------------------------------------------------------------------------
(* Program constants *)

PCNT_H_LIM_VAL == 20000

L == PCNT_H_LIM_VAL

\* #define MIN_GATE_TIME 1000
MIN_GATE_TIME == 1000

\* params[348][4], columns {clock multiplier, on/off duration, nominal freq};
\* the fourth column (calibrated frequency) is only displayed.
params ==
  <<
    <<247, 32393, 5>>, <<204, 32684, 6>>, <<201, 28433, 7>>, <<153, 32684, 8>>, <<136, 32684, 9>>, <<203, 19707, 10>>,
    <<120, 30307, 11>>, <<136, 24513, 12>>, <<141, 21825, 13>>, <<145, 19707, 14>>, <<97, 27495, 15>>, <<102, 24513, 16>>,
    <<96, 24513, 17>>, <<68, 32684, 18>>, <<129, 16322, 19>>, <<103, 19420, 20>>, <<145, 13138, 21>>, <<60, 30307, 22>>,
    <<71, 24498, 23>>, <<68, 24513, 24>>, <<117, 13677, 25>>, <<173, 8894, 26>>, <<47, 31525, 27>>, <<81, 17639, 28>>,
    <<70, 19707, 29>>, <<203, 6569, 30>>, <<54, 23898, 31>>, <<51, 24513, 32>>, <<40, 30307, 33>>, <<48, 24513, 34>>,
    <<58, 19707, 35>>, <<34, 32684, 36>>, <<143, 7561, 37>>, <<129, 8161, 38>>, <<45, 22795, 39>>, <<103, 9710, 40>>,
    <<49, 19913, 41>>, <<145, 6569, 42>>, <<38, 24483, 43>>, <<30, 30307, 44>>, <<39, 22795, 45>>, <<71, 12249, 46>>,
    <<27, 31525, 47>>, <<34, 24513, 48>>, <<41, 19913, 49>>, <<103, 7768, 50>>, <<24, 32684, 51>>, <<173, 4447, 52>>,
    <<32, 23588, 53>>, <<31, 23898, 54>>, <<24, 30307, 55>>, <<42, 17009, 56>>, <<43, 16322, 57>>, <<35, 19707, 58>>,
    <<35, 19373, 59>>, <<22, 30307, 60>>, <<133, 4931, 61>>, <<27, 23898, 62>>, <<31, 20484, 63>>, <<53, 11794, 64>>,
    <<27, 22795, 65>>, <<20, 30307, 66>>, <<21, 28433, 67>>, <<24, 24513, 68>>, <<71, 8166, 69>>, <<29, 19707, 70>>,
    <<18, 31303, 71>>, <<17, 32684, 72>>, <<19, 28843, 73>>, <<18, 30034, 74>>, <<47, 11349, 75>>, <<167, 3152, 76>>,
    <<49, 10603, 77>>, <<59, 8693, 78>>, <<187, 2708, 79>>, <<103, 4855, 80>>, <<217, 2276, 81>>, <<29, 16823, 82>>,
    <<163, 2957, 83>>, <<27, 17639, 84>>, <<25, 18826, 85>>, <<19, 24483, 86>>, <<35, 13138, 87>>, <<15, 30307, 88>>,
    <<17, 26441, 89>>, <<109, 4078, 90>>, <<16, 27476, 91>>, <<20, 21742, 92>>, <<18, 23898, 93>>, <<211, 2017, 94>>,
    <<17, 24771, 95>>, <<17, 24513, 96>>, <<13, 31725, 97>>, <<24, 17009, 98>>, <<13, 31084, 99>>, <<103, 3884, 100>>,
    <<12, 30307, 110>>, <<11, 30307, 120>>, <<107, 2876, 130>>, <<23, 12424, 140>>, <<10, 26670, 150>>, <<23, 10871, 160>>,
    <<25, 9413, 170>>, <<109, 2039, 180>>, <<7, 30079, 190>>, <<103, 1942, 200>>, <<29, 6569, 210>>, <<6, 30307, 220>>,
    <<7, 24848, 230>>, <<8, 20836, 240>>, <<17, 9413, 250>>, <<107, 1438, 260>>, <<9, 16463, 270>>, <<23, 6212, 280>>,
    <<7, 19707, 290>>, <<5, 26670, 300>>, <<5, 25810, 310>>, <<6, 20836, 320>>, <<4, 30307, 330>>, <<7, 16809, 340>>,
    <<11, 10391, 350>>, <<6, 18521, 360>>, <<7, 15446, 370>>, <<6, 17546, 380>>, <<67, 1531, 390>>, <<103, 971, 400>>,
    <<7, 13939, 410>>, <<13, 7327, 420>>, <<5, 18607, 430>>, <<3, 30307, 440>>, <<4, 22225, 450>>, <<4, 21742, 460>>,
    <<47, 1811, 470>>, <<4, 20836, 480>>, <<19, 4297, 490>>, <<3, 26670, 500>>, <<7, 11206, 510>>, <<107, 719, 520>>,
    <<11, 6862, 530>>, <<4, 18521, 540>>, <<7, 10391, 550>>, <<23, 3106, 560>>, <<5, 14037, 570>>, <<5, 13795, 580>>,
    <<5, 13561, 590>>, <<3, 22225, 600>>, <<11, 5962, 610>>, <<5, 12905, 620>>, <<2, 31750, 630>>, <<3, 20836, 640>>,
    <<2, 30773, 650>>, <<2, 30307, 660>>, <<3, 19903, 670>>, <<2, 29416, 680>>, <<37, 1567, 690>>, <<2, 28575, 700>>,
    <<5, 11269, 710>>, <<3, 18521, 720>>, <<2, 27401, 730>>, <<7, 7723, 740>>, <<3, 17780, 750>>, <<3, 17546, 760>>,
    <<5, 10391, 770>>, <<7, 7327, 780>>, <<5, 10128, 790>>, <<79, 633, 800>>, <<3, 16463, 810>>, <<3, 16262, 820>>,
    <<157, 307, 830>>, <<3, 15875, 840>>, <<5, 9413, 850>>, <<2, 23259, 860>>, <<7, 6569, 870>>, <<2, 22730, 880>>,
    <<2, 22475, 890>>, <<2, 22225, 900>>, <<2, 21981, 910>>, <<2, 21742, 920>>, <<2, 21508, 930>>, <<11, 3869, 940>>,
    <<9, 4679, 950>>, <<2, 20836, 960>>, <<2, 20621, 970>>, <<2, 20411, 980>>, <<17, 2377, 990>>, <<3, 13335, 1000>>,
    <<2, 18184, 1100>>, <<2, 16669, 1200>>, <<1, 30773, 1300>>, <<1, 28575, 1400>>, <<3, 8890, 1500>>, <<1, 25003, 1600>>,
    <<1, 23532, 1700>>, <<1, 22225, 1800>>, <<1, 21055, 1900>>, <<83, 241, 2000>>, <<1, 19050, 2100>>, <<1, 18184, 2200>>,
    <<1, 17394, 2300>>, <<1, 16669, 2400>>, <<1, 16002, 2500>>, <<1, 15387, 2600>>, <<1, 14817, 2700>>, <<1, 14288, 2800>>,
    <<1, 13795, 2900>>, <<3, 4445, 3000>>, <<1, 12905, 3100>>, <<1, 12502, 3200>>, <<27, 449, 3300>>, <<1, 11766, 3400>>,
    <<3, 3810, 3500>>, <<1, 11113, 3600>>, <<3, 3604, 3700>>, <<1, 10528, 3800>>, <<1, 10258, 3900>>, <<1, 10001, 4000>>,
    <<1, 9757, 4100>>, <<1, 9525, 4200>>, <<1, 9304, 4300>>, <<1, 9092, 4400>>, <<1, 8890, 4500>>, <<1, 8697, 4600>>,
    <<1, 8512, 4700>>, <<1, 8334, 4800>>, <<1, 8164, 4900>>, <<1, 8001, 5000>>, <<37, 212, 5100>>, <<7, 1099, 5200>>,
    <<1, 7548, 5300>>, <<1, 7408, 5400>>, <<1, 7274, 5500>>, <<1, 7144, 5600>>, <<11, 638, 5700>>, <<3, 2299, 5800>>,
    <<1, 6781, 5900>>, <<1, 6668, 6000>>, <<1, 6558, 6100>>, <<1, 6452, 6200>>, <<25, 254, 6300>>, <<1, 6251, 6400>>,
    <<1, 6155, 6500>>, <<1, 6061, 6600>>, <<1, 5971, 6700>>, <<1, 5883, 6800>>, <<1, 5798, 6900>>, <<3, 1905, 7000>>,
    <<1, 5635, 7100>>, <<1, 5556, 7200>>, <<1, 5480, 7300>>, <<3, 1802, 7400>>, <<1, 5334, 7500>>, <<1, 5264, 7600>>,
    <<1, 5195, 7700>>, <<1, 5129, 7800>>, <<1, 5064, 7900>>, <<1, 5001, 8000>>, <<1, 4939, 8100>>, <<1, 4879, 8200>>,
    <<1, 4820, 8300>>, <<1, 4763, 8400>>, <<1, 4706, 8500>>, <<1, 4652, 8600>>, <<11, 418, 8700>>, <<1, 4546, 8800>>,
    <<5, 899, 8900>>, <<1, 4445, 9000>>, <<1, 4396, 9100>>, <<1, 4348, 9200>>, <<239, 18, 9300>>, <<1, 4256, 9400>>,
    <<1, 4211, 9500>>, <<1, 4167, 9600>>, <<1, 4124, 9700>>, <<1, 4082, 9800>>, <<1, 4041, 9900>>, <<1, 4001, 10000>>,
    <<1, 3637, 11000>>, <<1, 3334, 12000>>, <<17, 181, 13000>>, <<1, 2858, 14000>>, <<1, 2667, 15000>>, <<1, 2500, 16000>>,
    <<1, 2353, 17000>>, <<1, 2223, 18000>>, <<27, 78, 19000>>, <<1, 2000, 20000>>, <<3, 635, 21000>>, <<3, 606, 22000>>,
    <<1, 1739, 23000>>, <<1, 1667, 24000>>, <<1, 1600, 25000>>, <<27, 57, 26000>>, <<1, 1482, 27000>>, <<1, 1429, 28000>>,
    <<1, 1379, 29000>>, <<1, 1334, 30000>>, <<1, 1290, 31000>>, <<1, 1250, 32000>>, <<1, 1212, 33000>>, <<107, 11, 34000>>,
    <<1, 1143, 35000>>, <<11, 101, 36000>>, <<1, 1081, 37000>>, <<27, 39, 38000>>, <<27, 38, 39000>>, <<1, 1000, 40000>>,
    <<1, 976, 41000>>, <<3, 310, 43000>>, <<3, 303, 44000>>, <<1, 889, 45000>>, <<1, 870, 46000>>, <<1, 851, 47000>>,
    <<1, 800, 50000>>, <<1, 769, 52000>>, <<1, 755, 53000>>, <<1, 741, 54000>>, <<1, 702, 57000>>, <<5, 138, 58000>>,
    <<1, 678, 59000>>, <<1, 667, 60000>>, <<1, 656, 61000>>, <<1, 645, 62000>>, <<1, 635, 63000>>, <<1, 625, 64000>>,
    <<1, 606, 66000>>, <<1, 597, 67000>>, <<1, 580, 69000>>, <<1, 548, 73000>>, <<27, 19, 78000>>, <<1, 500, 80000>>,
    <<1, 494, 81000>>, <<1, 488, 82000>>, <<1, 482, 83000>>, <<3, 155, 86000>>, <<1, 460, 87000>>, <<1, 435, 92000>>,
    <<43, 10, 93000>>, <<1, 421, 95000>>, <<1, 404, 99000>>, <<1, 400, 100000>>, <<1, 200, 200000>>, <<1, 100, 400000>>,
    <<1, 80, 500000>>, <<1, 50, 800000>>, <<1, 40, 1000000>>, <<1, 20, 2000000>>, <<1, 10, 4000000>>, <<1, 8, 5000000>>
  >>

NPARAMS == Len(params)

\* gt_multipliers[10] of the gate-time sketch
gt_multipliers == <<1, 5, 10, 50, 100, 500, 1000, 2000, 5000, 10000>>

----------------------------------------------------------------------------
(* IEEE-754 binary32 arithmetic, as the sketch's float expressions use it.  *)
(* A value is [k, m, e]: k = "num" stands for m * 2^e with                  *)
(* 2^23 <= m < 2^24; k = "zero", "inf", "nan" are the special values.  All  *)
(* values in the sketch are non-negative, so no sign is kept.  Operations   *)
(* round to nearest, ties to even.  Exponents stay far from the subnormal   *)
(* and overflow ranges for the values met here.                             *)

RECURSIVE Pow2(_)
Pow2(n) == IF n = 0 THEN 1 ELSE 2 * Pow2(n - 1)

F32Zero == [k |-> "zero", m |-> 0, e |-> 0]

F32Inf == [k |-> "inf", m |-> 0, e |-> 0]

F32NaN == [k |-> "nan", m |-> 0, e |-> 0]

\* q holds 24 significant bits plus the remainder information: round it.
F32Round(q, up, tie, e) ==
  LET q1 == IF up \/ (tie /\ q % 2 = 1) THEN q + 1 ELSE q
  IN  IF q1 = 16777216
        THEN [k |-> "num", m |-> 8388608, e |-> e + 1]
        ELSE [k |-> "num", m |-> q1, e |-> e]

RECURSIVE ScaleNum(_, _, _)
ScaleNum(n, d, s) == IF n >= d THEN <<n, s>> ELSE ScaleNum(2 * n, d, s + 1)

RECURSIVE ScaleDen(_, _, _)
ScaleDen(n, d, s) == IF 2 * d > n THEN <<d, s>> ELSE ScaleDen(n, 2 * d, s + 1)

RECURSIVE QuotBits(_, _, _, _)
QuotBits(r, d, q, bits) ==
  IF bits = 0 THEN <<q, r>>
  ELSE IF 2 * r >= d THEN QuotBits(2 * r - d, d, 2 * q + 1, bits - 1)
       ELSE QuotBits(2 * r, d, 2 * q, bits - 1)

\* The binary32 value nearest to the rational n/d * 2^e0 (1 <= n, d < 2^30).
F32Ratio(n, d, e0) ==
  LET sn == ScaleNum(n, d, 0)
      sd == ScaleDen(sn[1], d, 0)
      qr == QuotBits(sn[1] - sd[1], sd[1], 1, 23)
  IN  F32Round(qr[1], 2 * qr[2] > sd[1], 2 * qr[2] = sd[1],
               e0 + sd[2] - sn[2] - 23)

\* float(n) for an integer 0 <= n < 2^30
F32FromInt(n) == IF n = 0 THEN F32Zero ELSE F32Ratio(n, 1, 0)

\* a / b
F32Div(a, b) ==
  IF a.k = "nan" \/ b.k = "nan" THEN F32NaN
  ELSE IF a.k = "inf" THEN (IF b.k = "inf" THEN F32NaN ELSE F32Inf)
  ELSE IF b.k = "inf" THEN F32Zero
  ELSE IF b.k = "zero" THEN (IF a.k = "zero" THEN F32NaN ELSE F32Inf)
  ELSE IF a.k = "zero" THEN F32Zero
  ELSE F32Ratio(a.m, b.m, a.e - b.e)

\* The 48-bit product of two numbers below 2^24, as hi * 2^24 + lo.
Mul24(a, b) ==
  LET a1 == a \div 4096
      a0 == a % 4096
      b1 == b \div 4096
      b0 == b % 4096
      mid == a1 * b0 + a0 * b1
      low == a0 * b0 + (mid % 4096) * 4096
  IN  [hi |-> a1 * b1 + (mid \div 4096) + (low \div 16777216),
       lo |-> low % 16777216]

\* a * b
F32Mul(a, b) ==
  IF a.k = "nan" \/ b.k = "nan" THEN F32NaN
  ELSE IF a.k = "inf" \/ b.k = "inf"
    THEN (IF a.k = "zero" \/ b.k = "zero" THEN F32NaN ELSE F32Inf)
  ELSE IF a.k = "zero" \/ b.k = "zero" THEN F32Zero
  ELSE LET p == Mul24(a.m, b.m)
       IN  IF p.hi >= 8388608
             THEN F32Round(p.hi, p.lo > 8388608, p.lo = 8388608,
                           a.e + b.e + 24)
             ELSE F32Round(2 * p.hi + (p.lo \div 8388608),
                           (p.lo % 8388608) > 4194304,
                           (p.lo % 8388608) = 4194304,
                           a.e + b.e + 23)

\* int(a): conversion to int truncates toward zero (finite a below 2^30)
F32ToInt(a) ==
  IF a.k # "num" THEN 0
  ELSE IF a.e >= 0 THEN a.m * Pow2(a.e)
  ELSE IF a.e < -24 THEN 0
  ELSE a.m \div Pow2(-a.e)

\* if (a): a float is true unless it compares equal to zero (NaN is true)
F32Truthy(a) == a.k # "zero"

\* The digits printf("%.*f", p, a) prints for a finite a, as the integer
\* round(a * 10^p) (ties to even), for 0 <= p <= 10 and a < 2^7.
F32Decimals(a, p) ==
  IF a.k # "num" THEN 0
  ELSE LET pr == Mul24(a.m, 5 ^ p)
           s == -(a.e + p)
       IN  IF s <= 0 THEN (pr.hi * 16777216 + pr.lo) * Pow2(-s)
           ELSE IF s <= 24
             THEN LET q == pr.hi * Pow2(24 - s) + (pr.lo \div Pow2(s))
                      r == pr.lo % Pow2(s)
                      h == Pow2(s - 1)
                  IN  IF r > h \/ (r = h /\ q % 2 = 1) THEN q + 1 ELSE q
           ELSE IF s <= 47
             THEN LET q == pr.hi \div Pow2(s - 24)
                      r == pr.hi % Pow2(s - 24)
                      h == Pow2(s - 25)
                      up == r > h \/ (r = h /\ pr.lo > 0)
                      tie == r = h /\ pr.lo = 0
                  IN  IF up \/ (tie /\ q % 2 = 1) THEN q + 1 ELSE q
           ELSE 0

\* a >= b for two positive finite values
F32GE(a, b) == a.e > b.e \/ (a.e = b.e /\ a.m >= b.m)

\* Pow10Up[i] is the smallest binary32 value >= 10^(i - 4), for 10^-3 .. 10^11
Pow10Up ==
  << [k |-> "num", m |-> 8589935, e |-> -33],
     [k |-> "num", m |-> 10737419, e |-> -30],
     [k |-> "num", m |-> 13421773, e |-> -27],
     [k |-> "num", m |-> 8388608, e |-> -23],
     [k |-> "num", m |-> 10485760, e |-> -20],
     [k |-> "num", m |-> 13107200, e |-> -17],
     [k |-> "num", m |-> 16384000, e |-> -14],
     [k |-> "num", m |-> 10240000, e |-> -10],
     [k |-> "num", m |-> 12800000, e |-> -7],
     [k |-> "num", m |-> 16000000, e |-> -4],
     [k |-> "num", m |-> 10000000, e |-> 0],
     [k |-> "num", m |-> 12500000, e |-> 3],
     [k |-> "num", m |-> 15625000, e |-> 6],
     [k |-> "num", m |-> 9765625, e |-> 10],
     [k |-> "num", m |-> 12207032, e |-> 13] >>

\* floor(log10(a)) for a finite a with 10^-3 <= a < 10^12
FloorLog10(a) ==
  Cardinality({i \in 1..Len(Pow10Up) : F32GE(a, Pow10Up[i])}) - 4

\* int(log10(a) + 1) for such an a: the conversion to int truncates toward
\* zero, and no binary32 value below 1 is a power of ten, so for a < 0.1
\* the truncated value is floor(log10(a)) + 2.
IntLog10Plus1(a) ==
  IF FloorLog10(a) >= -1 THEN FloorLog10(a) + 1 ELSE FloorLog10(a) + 2

\* int(log10(n) + 1) for an int n >= 1: the number of decimal digits of n
RECURSIVE IntDigits(_)
IntDigits(n) == IF n < 10 THEN 1 ELSE 1 + IntDigits(n \div 10)

----------------------------------------------------------------------------
(* Bounds of the model *)

\* pulse bursts counted by the two counters in one run
MaxBursts == 3

\* gate windows opened in one run
MaxWindows == 2

\* rotary steps the encoder may be ahead of the last encoderChanged() poll
MaxPendingSteps == 1

----------------------------------------------------------------------------
(* State *)

VARIABLES
  variant,              \* "generator" or "gatetime": which sketch runs
  gate,                 \* level of the synchronized window (PCNT_INPUT_CTRL_IO, GATING_SIGNAL_IN)
  cnt,                  \* hardware counter value of PCNT unit 0 (reference) and 1 (signal)
  int_st,               \* PCNT.int_st: unit's high-limit interrupt raised, not yet serviced
  gpio_intr,            \* falling edge of GATING_SIGNAL_IN raised, isr not yet run
  noverflow0,           \* overflow tally of the reference counter
  noverflow1,           \* overflow tally of the signal counter
  reading,              \* reading_t reading: the snapshot
  ready,                \* snapshot-ready flag
  pc,                   \* position of loop() in the block that consumes a reading
  n_ref,                \* loop() local
  n_sig,                \* loop() local
  serial_out,           \* frequency published by the current loop() iteration (log line, display line 1)
  win,                  \* history: pulses each counter counted in the current window
  bursts,               \* history: pulse bursts counted so far
  windows,              \* history: gate windows opened so far
  snapTrue,             \* history: pulses each counter counted in the window of the last snapshot
  seen,                 \* history: the snapshot that was pending when loop() last found ready set
  fresh,                \* history: a snapshot was published from which loop() has not computed yet
  snaps,                \* history: runs of isr so far
  precision,            \* loop() local: digits after the decimal point of the published frequency
  loaded,               \* history: the values of reading that the loads of this iteration of loop() saw
  used,                 \* history: runs of isr at the time loop() last computed a frequency
  pulses,               \* history: pulses each counter has counted since the boot
  taken,                \* history: sum of the totals of each counter in all snapshots so far
  last,                 \* bool last: level of the gate output line (GATING_SIGNAL_OUT)
  timer_us,             \* delay the gate timer was last started with, in microseconds
  fired,                \* history: the gate timer has fired since the last boot
  pending,              \* gate timers started (esp_timer_start_once) that have not fired yet
  encoder0Pos,          \* rotary encoder position (in detents), as readEncoder() returns it
  lastReadEncoder0Pos,  \* position at the last encoderChanged() poll
  clicked,              \* a button click waits for isEncoderButtonClicked()
  encoderValue,         \* RTC_DATA_ATTR int encoderValue
  set_duty,             \* RTC_DATA_ATTR int set_duty
  gate_time_multiplier, \* int gate_time_multiplier
  freq_gen,             \* what the waveform driver was last armed with
  uipc                  \* position of loop() in the user-interface part

cntVars == <<gate, cnt, int_st, gpio_intr, noverflow0, noverflow1, reading,
             ready, pc, n_ref, n_sig, serial_out, win, bursts, windows,
             snapTrue, seen, fresh, snaps, precision, loaded, used,
             pulses, taken>>

tmrVars == <<last, timer_us, fired, pending>>

uiVars == <<encoder0Pos, lastReadEncoder0Pos, clicked, encoderValue,
            set_duty, gate_time_multiplier, freq_gen, uipc>>

vars == <<variant, cntVars, uiVars, tmrVars>>

Variants == {"generator", "gatetime"}

Units == {0, 1}

\* Sizes of the pulse bursts the model feeds to a counter between two steps
\* of the software: a few pulses, or a whole counter period.
Bursts == {150, L}

NoReading == [count0 |-> 0, noverflow0 |-> 0, count1 |-> 0, noverflow1 |-> 0]

\* nothing published
NoOutput == [k |-> "none", m |-> 0, e |-> 0]

\* float reference = 10001305.4 (generator), 19837298.2 (gatetime)
reference(v) ==
  IF v = "generator" THEN F32Ratio(100013054, 10, 0)
  ELSE F32Ratio(198372982, 10, 0)

\* The waveform driver before the first rmtInit: freq_gen_rmt_send = NULL
NotArmed ==
  [armed |-> FALSE, by |-> "none", index |-> 0, dur |-> 0, duty |-> 0,
   tick |-> 0, on |-> 0, off |-> 0, log |-> "none", items |-> 0]

\* rotaryEncoder.setBoundaries(0, 347, false) / (0, 9, false)
MaxIndex(v) == IF v = "generator" THEN 347 ELSE 9

\* RTC_DATA_ATTR int encoderValue = 185 / 6
DefaultIndex(v) == IF v = "generator" THEN 185 ELSE 6

\* RTC_DATA_ATTR int set_duty = 50
DefaultDuty == 50

\* int gate_time_multiplier = 1000
DefaultMultiplier == 1000

\* Variant of counter_h_lim: the limit left at the largest value of the
\* 16-bit counter.
counter_h_lim_Max == 2^15 - 1

\* pcnt_config.counter_h_lim = PCNT_H_LIM_VAL: the count at which the
\* hardware counter returns to zero
counter_h_lim == PCNT_H_LIM_VAL

----------------------------------------------------------------------------
(* Initial states: the state setup() leaves after a cold boot *)

InitCnt ==
  /\ gate = FALSE
  /\ cnt = [u \in Units |-> 0]
  /\ int_st = [u \in Units |-> FALSE]
  /\ gpio_intr = FALSE
  /\ noverflow0 = 0
  /\ noverflow1 = 0
  /\ reading = NoReading
  /\ ready = FALSE
  /\ pc = "check"
  /\ n_ref = 0
  /\ n_sig = 0
  /\ serial_out = NoOutput
  /\ win = [u \in Units |-> 0]
  /\ bursts = 0
  /\ windows = 0
  /\ snapTrue = [u \in Units |-> 0]
  /\ seen = NoReading
  /\ fresh = FALSE
  /\ snaps = 0
  /\ precision = 0
  /\ loaded = {}
  /\ used = 0
  /\ pulses = [u \in Units |-> 0]
  /\ taken = [u \in Units |-> 0]

InitUi ==
  /\ encoder0Pos = DefaultIndex(variant)
  /\ lastReadEncoder0Pos = DefaultIndex(variant)
  /\ clicked = FALSE
  /\ encoderValue = DefaultIndex(variant)
  /\ set_duty = DefaultDuty
  /\ gate_time_multiplier = DefaultMultiplier
  /\ freq_gen = NotArmed
  /\ uipc = "encoder"

\* bool last = false; start_gating_timer: esp_timer_start_once(timer,
\* MIN_GATE_TIME*gate_time_multiplier)
InitTmr ==
  /\ last = FALSE
  /\ timer_us = MIN_GATE_TIME * DefaultMultiplier
  /\ fired = FALSE
  /\ pending = 1

Init ==
  /\ variant \in Variants
  /\ InitCnt
  /\ InitUi
  /\ InitTmr

----------------------------------------------------------------------------
(* Measurement: hardware *)

\* Variant of GateRise: isr attached with mode CHANGE, the rising edge
\* raises the interrupt too.
GateRise_IntrOnChange ==
  /\ ~gate
  /\ ~gpio_intr
  /\ windows < MaxWindows
  /\ gate' = TRUE
  /\ gpio_intr' = TRUE
  /\ windows' = windows + 1
  /\ UNCHANGED <<variant, cnt, int_st, noverflow0, noverflow1, reading,
                 ready, pc, n_ref, n_sig, serial_out, win, bursts, snapTrue,
                 seen, fresh, snaps, precision, loaded, used, pulses, taken, uiVars, tmrVars>>

\* The synchronized window opens.  The gate-fall interrupt of the previous
\* window has been serviced by then (the window stays closed for at least
\* MIN_GATE_TIME microseconds).
GateRise ==
  /\ ~gate
  /\ ~gpio_intr
  /\ windows < MaxWindows
  /\ gate' = TRUE
  /\ windows' = windows + 1
  /\ UNCHANGED <<variant, cnt, int_st, gpio_intr, noverflow0, noverflow1,
                 reading, ready, pc, n_ref, n_sig, serial_out, win, bursts,
                 snapTrue, seen, fresh, snaps, precision, loaded, used, pulses, taken, uiVars, tmrVars>>

\* The synchronized window closes: counting stops and the falling edge
\* raises the interrupt that isr is attached to.
GateFall ==
  /\ gate
  /\ gate' = FALSE
  /\ gpio_intr' = TRUE
  /\ UNCHANGED <<variant, cnt, int_st, noverflow0, noverflow1, reading,
                 ready, pc, n_ref, n_sig, serial_out, win, bursts, snapTrue,
                 seen, fresh, windows, snaps, precision, loaded, used, pulses, taken, uiVars, tmrVars>>

\* Variant of Pulse: lctrl_mode = PCNT_MODE_KEEP, the pulses are counted
\* whatever the level of the control input.
Pulse_Ungated(u, n) ==
  /\ bursts < MaxBursts
  /\ cnt[u] + n >= counter_h_lim => ~int_st[u]
  /\ cnt' = [cnt EXCEPT ![u] = (cnt[u] + n) % counter_h_lim]
  /\ int_st' = [int_st EXCEPT ![u] = int_st[u] \/ (cnt[u] + n >= counter_h_lim)]
  /\ win' = [win EXCEPT ![u] = win[u] + n]
  /\ bursts' = bursts + 1
  /\ pulses' = [pulses EXCEPT ![u] = pulses[u] + n]
  /\ UNCHANGED <<variant, gate, gpio_intr, noverflow0, noverflow1, reading,
                 ready, pc, n_ref, n_sig, serial_out, snapTrue, seen, fresh,
                 windows, snaps, precision, loaded, used, taken, uiVars, tmrVars>>

\* n pulses arrive at the input of counter u.  They are counted only while
\* the control input is high (lctrl_mode = PCNT_MODE_DISABLE, hctrl_mode =
\* PCNT_MODE_KEEP).  On reaching counter_h_lim the counter returns to zero
\* and raises the unit's interrupt (PCNT_EVT_H_LIM).  A raised interrupt is
\* serviced before the counter reaches the limit again.
Pulse(u, n) ==
  /\ gate
  /\ bursts < MaxBursts
  /\ cnt[u] + n >= counter_h_lim => ~int_st[u]
  /\ cnt' = [cnt EXCEPT ![u] = (cnt[u] + n) % counter_h_lim]
  /\ int_st' = [int_st EXCEPT ![u] = int_st[u] \/ (cnt[u] + n >= counter_h_lim)]
  /\ win' = [win EXCEPT ![u] = win[u] + n]
  /\ bursts' = bursts + 1
  /\ pulses' = [pulses EXCEPT ![u] = pulses[u] + n]
  /\ UNCHANGED <<variant, gate, gpio_intr, noverflow0, noverflow1, reading,
                 ready, pc, n_ref, n_sig, serial_out, snapTrue, seen, fresh,
                 windows, snaps, precision, loaded, used, taken, uiVars, tmrVars>>

----------------------------------------------------------------------------
(* Measurement: interrupt handlers.  Handlers run to completion and do not *)
(* pre-empt each other; which of two raised interrupts is serviced first   *)
(* is not determined.                                                      *)

\* Variant of isr: the counters are cleared before their values are read.
isr_ClearBeforeRead ==
  /\ gpio_intr
  /\ gpio_intr' = FALSE
  /\ reading' = [count0 |-> 0, noverflow0 |-> noverflow0,
                 count1 |-> 0, noverflow1 |-> noverflow1]
  /\ noverflow0' = 0
  /\ noverflow1' = 0
  /\ cnt' = [u \in Units |-> 0]
  /\ ready' = TRUE
  /\ snapTrue' = win
  /\ win' = [u \in Units |-> 0]
  /\ fresh' = TRUE
  /\ snaps' = snaps + 1
  /\ taken' = [u \in Units |->
                  taken[u] + (IF u = 0 THEN reading'.noverflow0 * L + reading'.count0
                              ELSE reading'.noverflow1 * L + reading'.count1)]
  /\ UNCHANGED <<variant, gate, int_st, pc, n_ref, n_sig, serial_out, seen,
                 bursts, windows, precision, loaded, used, pulses, uiVars, tmrVars>>

\* Variant of isr: the tallies are not zeroed.
isr_TalliesNotZeroed ==
  /\ gpio_intr
  /\ gpio_intr' = FALSE
  /\ reading' = [count0 |-> cnt[0], noverflow0 |-> noverflow0,
                 count1 |-> cnt[1], noverflow1 |-> noverflow1]
  /\ cnt' = [u \in Units |-> 0]
  /\ ready' = TRUE
  /\ snapTrue' = win
  /\ win' = [u \in Units |-> 0]
  /\ fresh' = TRUE
  /\ snaps' = snaps + 1
  /\ taken' = [u \in Units |->
                  taken[u] + (IF u = 0 THEN reading'.noverflow0 * L + reading'.count0
                              ELSE reading'.noverflow1 * L + reading'.count1)]
  /\ UNCHANGED <<variant, gate, noverflow0, noverflow1, int_st, pc, n_ref,
                 n_sig, serial_out, seen, bursts, windows, precision,
                 loaded, used, pulses, uiVars, tmrVars>>

\* void isr(): pause, read both counters, copy counts and tallies into
\* reading, zero the tallies, clear and resume the counters, set ready.
isr ==
  /\ gpio_intr
  /\ gpio_intr' = FALSE
  /\ reading' = [count0 |-> cnt[0], noverflow0 |-> noverflow0,
                 count1 |-> cnt[1], noverflow1 |-> noverflow1]
  /\ noverflow0' = 0
  /\ noverflow1' = 0
  /\ cnt' = [u \in Units |-> 0]
  /\ ready' = TRUE
  /\ snapTrue' = win
  /\ win' = [u \in Units |-> 0]
  /\ fresh' = TRUE
  /\ snaps' = snaps + 1
  /\ taken' = [u \in Units |->
                  taken[u] + (IF u = 0 THEN reading'.noverflow0 * L + reading'.count0
                              ELSE reading'.noverflow1 * L + reading'.count1)]
  /\ UNCHANGED <<variant, gate, int_st, pc, n_ref, n_sig, serial_out, seen,
                 bursts, windows, precision, loaded, used, pulses, uiVars, tmrVars>>

\* Variant of pcnt_intr_handler: the unit number is not tested, an interrupt
\* of either unit increments both tallies.
pcnt_intr_handler_AnyUnit ==
  /\ \E u \in Units : int_st[u]
  /\ noverflow0' = noverflow0 + 1
  /\ noverflow1' = noverflow1 + 1
  /\ int_st' = [u \in Units |-> FALSE]
  /\ UNCHANGED <<variant, gate, cnt, gpio_intr, reading, ready, pc, n_ref,
                 n_sig, serial_out, win, bursts, snapTrue, seen, fresh,
                 windows, snaps, precision, loaded, used, pulses, taken, uiVars, tmrVars>>

\* void pcnt_intr_handler(void*): for every unit whose interrupt is raised,
\* clear it and increment the unit's tally (the only enabled event is the
\* high limit, so cnt_thr_h_lim_lat_un is set).
pcnt_intr_handler ==
  /\ \E u \in Units : int_st[u]
  /\ noverflow0' = IF int_st[0] THEN noverflow0 + 1 ELSE noverflow0
  /\ noverflow1' = IF int_st[1] THEN noverflow1 + 1 ELSE noverflow1
  /\ int_st' = [u \in Units |-> FALSE]
  /\ UNCHANGED <<variant, gate, cnt, gpio_intr, reading, ready, pc, n_ref,
                 n_sig, serial_out, win, bursts, snapTrue, seen, fresh,
                 windows, snaps, precision, loaded, used, pulses, taken, uiVars, tmrVars>>

----------------------------------------------------------------------------
(* Measurement: loop(), the block "if (ready) { ... ready = false; }".      *)
(* loop() runs with interrupts enabled: a raised interrupt is serviced     *)
(* before loop() takes its next step, and an interrupt may be raised       *)
(* between any two steps.                                                   *)

NoIntrPending == ~gpio_intr /\ \A u \in Units : ~int_st[u]

\* if (ready)
LoopCheck ==
  /\ pc = "check"
  /\ NoIntrPending
  /\ ready
  /\ pc' = "rd_noverflow0"
  /\ seen' = reading
  /\ UNCHANGED <<variant, gate, cnt, int_st, gpio_intr, noverflow0,
                 noverflow1, reading, ready, n_ref, n_sig, serial_out, win,
                 bursts, snapTrue, fresh, windows, snaps, precision, loaded, used, pulses, taken, uiVars, tmrVars>>

\* int n_ref = ((reading.noverflow0*PCNT_H_LIM_VAL)+reading.count0): first load
LoopReadNoverflow0 ==
  /\ pc = "rd_noverflow0"
  /\ NoIntrPending
  /\ n_ref' = reading.noverflow0 * PCNT_H_LIM_VAL
  /\ pc' = "rd_count0"
  /\ loaded' = loaded \cup {reading}
  /\ UNCHANGED <<variant, gate, cnt, int_st, gpio_intr, noverflow0,
                 noverflow1, reading, ready, n_sig, serial_out, win, bursts,
                 snapTrue, seen, fresh, windows, snaps, precision, used, pulses, taken, uiVars, tmrVars>>

\* ... second load
LoopReadCount0 ==
  /\ pc = "rd_count0"
  /\ NoIntrPending
  /\ n_ref' = n_ref + reading.count0
  /\ pc' = "rd_noverflow1"
  /\ loaded' = loaded \cup {reading}
  /\ UNCHANGED <<variant, gate, cnt, int_st, gpio_intr, noverflow0,
                 noverflow1, reading, ready, n_sig, serial_out, win, bursts,
                 snapTrue, seen, fresh, windows, snaps, precision, used, pulses, taken, uiVars, tmrVars>>

\* int n_sig = ((reading.noverflow1*PCNT_H_LIM_VAL)+reading.count1): first load
LoopReadNoverflow1 ==
  /\ pc = "rd_noverflow1"
  /\ NoIntrPending
  /\ n_sig' = reading.noverflow1 * PCNT_H_LIM_VAL
  /\ pc' = "rd_count1"
  /\ loaded' = loaded \cup {reading}
  /\ UNCHANGED <<variant, gate, cnt, int_st, gpio_intr, noverflow0,
                 noverflow1, reading, ready, n_ref, serial_out, win, bursts,
                 snapTrue, seen, fresh, windows, snaps, precision, used, pulses, taken, uiVars, tmrVars>>

\* ... second load
LoopReadCount1 ==
  /\ pc = "rd_count1"
  /\ NoIntrPending
  /\ n_sig' = n_sig + reading.count1
  /\ pc' = "compute"
  /\ loaded' = loaded \cup {reading}
  /\ UNCHANGED <<variant, gate, cnt, int_st, gpio_intr, noverflow0,
                 noverflow1, reading, ready, n_ref, serial_out, win, bursts,
                 snapTrue, seen, fresh, windows, snaps, precision, used, pulses, taken, uiVars, tmrVars>>

\* float frequency = float(n_sig)/float(n_ref)*reference
Frequency(v, nsig, nref) ==
  F32Mul(F32Div(F32FromInt(nsig), F32FromInt(nref)), reference(v))

\* Variant of Publishes: the frequency is published whatever its value.
Publishes_Always(v, f) == TRUE

\* generator: if (frequency) { create_display_string; Serial.printf; lcd.print }
\* gatetime:  Serial.printf, unconditionally
Publishes(v, f) == IF v = "generator" THEN F32Truthy(f) ELSE TRUE

\* Values standing for the result of an undefined conversion to int, after
\* the clamp at zero.
UndefinedPrecision == {0, 8, 16}

\* The values "precision" can have when the frequency is printed.
\* generator: int precision = 8 - int(log10(frequency)+1)
\* gatetime:  int precision = int(log10(n_ref)+1) - int(log10(frequency)+1)
\* then precision = precision<0?0:precision.  The conversion to int of an
\* infinite or NaN value is undefined: any value may result.
Precision(v, f, nref) ==
  IF f.k # "num" \/ nref = 0 THEN UndefinedPrecision
  ELSE LET p == IF v = "generator" THEN 8 - IntLog10Plus1(f)
                ELSE IntDigits(nref) - IntLog10Plus1(f)
       IN  {IF p < 0 THEN 0 ELSE p}

LoopCompute ==
  /\ pc = "compute"
  /\ NoIntrPending
  /\ LET frequency == Frequency(variant, n_sig, n_ref)
     IN  IF Publishes(variant, frequency)
           THEN /\ serial_out' = frequency
                /\ precision' \in Precision(variant, frequency, n_ref)
           ELSE UNCHANGED <<serial_out, precision>>
  /\ fresh' = IF /\ n_ref = reading.noverflow0 * L + reading.count0
                  /\ n_sig = reading.noverflow1 * L + reading.count1
               THEN FALSE ELSE fresh
  /\ pc' = "clear"
  /\ used' = snaps
  /\ UNCHANGED <<variant, gate, cnt, int_st, gpio_intr, noverflow0,
                 noverflow1, reading, ready, n_ref, n_sig, win, bursts,
                 snapTrue, seen, windows, snaps, loaded, pulses, taken, uiVars, tmrVars>>

\* Variant of LoopClear: the flag is not cleared at the end of the block.
LoopClear_KeepsReady ==
  /\ pc = "clear"
  /\ NoIntrPending
  /\ pc' = "check"
  /\ n_ref' = 0
  /\ n_sig' = 0
  /\ serial_out' = NoOutput
  /\ seen' = NoReading
  /\ precision' = 0
  /\ loaded' = {}
  /\ UNCHANGED <<variant, gate, cnt, int_st, gpio_intr, noverflow0,
                 noverflow1, reading, ready, win, bursts, snapTrue, fresh,
                 windows, snaps, used, pulses, taken, uiVars, tmrVars>>

\* ready = false; the block ends, its locals go out of scope
LoopClear ==
  /\ pc = "clear"
  /\ NoIntrPending
  /\ ready' = FALSE
  /\ pc' = "check"
  /\ n_ref' = 0
  /\ n_sig' = 0
  /\ serial_out' = NoOutput
  /\ seen' = NoReading
  /\ precision' = 0
  /\ loaded' = {}
  /\ UNCHANGED <<variant, gate, cnt, int_st, gpio_intr, noverflow0,
                 noverflow1, reading, win, bursts, snapTrue, fresh, windows,
                 snaps, used, pulses, taken, uiVars, tmrVars>>

NextLoop ==
  \/ LoopCheck
  \/ LoopReadNoverflow0
  \/ LoopReadCount0
  \/ LoopReadNoverflow1
  \/ LoopReadCount1
  \/ LoopCompute
  \/ LoopClear

Next ==
  \/ GateRise
  \/ GateFall
  \/ \E u \in Units, n \in Bursts : Pulse(u, n)
  \/ isr
  \/ pcnt_intr_handler
  \/ NextLoop

Spec == Init /\ [][Next]_vars

----------------------------------------------------------------------------
(* The estimator applied to given readings: the state right after isr has  *)
(* published a reading, and loop() consuming it.                           *)

ExampleReadings ==
  [count0 : {0, 1339, 4615}, noverflow0 : {0, 500, 50000},
   count1 : {0, 5}, noverflow1 : {0}]

InitEst ==
  /\ variant \in Variants
  /\ reading \in ExampleReadings
  /\ ready = TRUE
  /\ fresh = TRUE
  /\ snapTrue = [u \in Units |->
                   IF u = 0 THEN reading.noverflow0 * L + reading.count0
                   ELSE reading.noverflow1 * L + reading.count1]
  /\ gate = FALSE
  /\ cnt = [u \in Units |-> 0]
  /\ int_st = [u \in Units |-> FALSE]
  /\ gpio_intr = FALSE
  /\ noverflow0 = 0
  /\ noverflow1 = 0
  /\ pc = "check"
  /\ n_ref = 0
  /\ n_sig = 0
  /\ serial_out = NoOutput
  /\ win = [u \in Units |-> 0]
  /\ bursts = 0
  /\ windows = 1
  /\ seen = NoReading
  /\ snaps = 1
  /\ precision = 0
  /\ loaded = {}
  /\ used = 0
  /\ pulses = snapTrue
  /\ taken = snapTrue
  /\ InitUi
  /\ InitTmr

SpecEst == InitEst /\ [][NextLoop]_vars

----------------------------------------------------------------------------
(* User interface: rotary encoder, button, duty cycle, waveform driver *)

\* Variant of Clamp: circleValues = true, a position beyond a boundary
\* becomes the opposite boundary.
Clamp_Circle(v, p) ==
  IF p > MaxIndex(v) THEN 0
  ELSE IF p < 0 THEN MaxIndex(v)
  ELSE p

\* The encoder library keeps the position inside the boundaries given to
\* setBoundaries(min, max, circleValues) with circleValues = false: a
\* position beyond a boundary becomes that boundary.
Clamp(v, p) ==
  IF p > MaxIndex(v) THEN MaxIndex(v)
  ELSE IF p < 0 THEN 0
  ELSE p

\* float t_dur = params[encoderValue][1]
Dur(i) == params[i + 1][2]

\* 12.5*params[encoderValue][0]: the tick, in units of 12.5 ns
Tick(i) == params[i + 1][1]

\* Variant of Nominal: the column of the on/off duration is read.
Nominal_Duration(i) == params[i + 1][2]

\* params[i][2]: the nominal frequency of table row i, in Hz
Nominal(i) == params[i + 1][3]

\* rotary_onButtonClick: if (t_dur < 18000 && t_dur > 40)
ButtonFeasible(t_dur) == t_dur < 18000 /\ t_dur > 40

\* Variant of RotationDuty: the stored duty is used for every row.
RotationDuty_Always(t_dur, sd) == sd

\* Variant of RotationDuty: a rotation always gives a 50 % waveform.
RotationDuty_Fifty(t_dur, sd) == 50

\* loop, encoder changed: if (t_dur > 18000 || t_dur < 40) duty = 50; else duty = set_duty
RotationDuty(t_dur, sd) == IF t_dur > 18000 \/ t_dur < 40 THEN 50 ELSE sd

\* Variant of NextDuty: the wrap comes one step late.
NextDuty_WrapLate(sd) == IF sd <= 90 THEN sd + 10 ELSE 10

\* Variant of NextDuty: the wrap goes to 0.
NextDuty_WrapToZero(sd) == IF sd < 90 THEN sd + 10 ELSE 0

\* rotary_onButtonClick: if (set_duty < 90) set_duty += 10; else set_duty = 10;
NextDuty(sd) == IF sd < 90 THEN sd + 10 ELSE 10

\* float t_on = (t_dur/100)*2*duty
t_on(t_dur, duty) ==
  F32Mul(F32Mul(F32Div(F32FromInt(t_dur), F32FromInt(100)), F32FromInt(2)),
         F32FromInt(duty))

\* Variant of OnTicks: the on time rounded to the nearest tick.
OnTicks_Rounded(t_dur, duty) == (2 * t_dur * duty + 50) \div 100

\* int(t_on)
OnTicks(t_dur, duty) == F32ToInt(t_on(t_dur, duty))

\* Variant of OffTicks: the off time is computed from the complement of the
\* duty, on its own, instead of as the rest of the period.
OffTicks_Complement(t_dur, duty) == OnTicks(t_dur, 100 - duty)

\* float t_off = 2*t_dur - int(t_on); int(t_off).  Both operands are
\* integers below 2^24, so the float subtraction is exact.
OffTicks(t_dur, duty) == 2 * t_dur - OnTicks(t_dur, duty)

\* rmt_data_t.duration0 / duration1 are 15-bit fields
Duration(n) == n % 32768

\* freq_gen_bit_data[i].duration0 = int(t_on), .duration1 = int(t_off),
\* tabulated for every table row and every duty that is a multiple of 10
bit_data_table ==
  [i \in 1..NPARAMS |->
     [p \in 0..10 |->
        [duration0 |-> Duration(OnTicks(params[i][2], 10 * p)),
         duration1 |-> Duration(OffTicks(params[i][2], 10 * p))]]]

\* rmt_data_t freq_gen_bit_data[2]
freq_gen_bit_data_length == 2

\* rmt_data_t bit_data[60]
bit_data_length == 60

\* start_ref_clock: for (int i=0; i < 60; i++) bit_data[i]... ;
\* rmtLoop(rmt_send, bit_data, 60)
RefItems == 60

\* The number of items of freq_gen_bit_data that are filled and handed to
\* rmtLoop: 60 in rotary_onButtonClick, 2 in the encoder branch of loop()
Items(by) == IF by = "button" THEN 60 ELSE 2

\* The line the re-arming code writes to the diagnostic log: the branch
\* taken when rmtInit returns NULL is empty (its Serial.println is commented
\* out) and the "Index: ..." line is printed in either case.
RearmLog(ok) == "Index"

\* Variant of Arm: rmtSetTick is left out, the driver keeps the tick it had.
Arm_TickNotSet(by, i, duty, ok) ==
  [armed |-> ok, by |-> by, index |-> i, dur |-> Dur(i), duty |-> duty,
   tick |-> freq_gen.tick,
   on |-> bit_data_table[i + 1][duty \div 10].duration0,
   off |-> bit_data_table[i + 1][duty \div 10].duration1,
   log |-> RearmLog(ok), items |-> Items(by)]

\* rmtDeinit, rmtInit, rmtSetTick, fill freq_gen_bit_data, rmtLoop: what the
\* driver is armed with, and the values of the "Index: ..." log line.  ok
\* says whether rmtInit returned a driver; with NULL, rmtSetTick and rmtLoop
\* do nothing and the output stays stopped by rmtDeinit.
Arm(by, i, duty, ok) ==
  [armed |-> ok, by |-> by, index |-> i, dur |-> Dur(i), duty |-> duty,
   tick |-> Tick(i),
   on |-> bit_data_table[i + 1][duty \div 10].duration0,
   off |-> bit_data_table[i + 1][duty \div 10].duration1,
   log |-> RearmLog(ok), items |-> Items(by)]

\* readEncoder_ISR: the knob is turned one detent up (dir = 1) or down (-1)
Rotate(dir) ==
  LET p == Clamp(variant, encoder0Pos + dir)
  IN  /\ encoder0Pos - lastReadEncoder0Pos < MaxPendingSteps
      /\ lastReadEncoder0Pos - encoder0Pos < MaxPendingSteps
      /\ encoder0Pos' = p
      /\ UNCHANGED <<variant, cntVars, tmrVars, lastReadEncoder0Pos, clicked,
                     encoderValue, set_duty, gate_time_multiplier, freq_gen,
                     uipc>>

\* The button is clicked
ButtonPress ==
  /\ ~clicked
  /\ clicked' = TRUE
  /\ UNCHANGED <<variant, cntVars, tmrVars, encoder0Pos, lastReadEncoder0Pos,
                 encoderValue, set_duty, gate_time_multiplier, freq_gen,
                 uipc>>

\* loop(): if (rotaryEncoder.encoderChanged()) { ... }
LoopEncoderChanged ==
  /\ uipc = "encoder"
  /\ uipc' = "button"
  /\ lastReadEncoder0Pos' = encoder0Pos
  /\ IF encoder0Pos # lastReadEncoder0Pos
       THEN /\ encoderValue' = encoder0Pos
            /\ IF variant = "generator"
                 THEN /\ \E ok \in BOOLEAN :
                           freq_gen' = Arm("rotation", encoder0Pos,
                                           RotationDuty(Dur(encoder0Pos), set_duty),
                                           ok)
                      /\ UNCHANGED gate_time_multiplier
                 ELSE /\ gate_time_multiplier' = gt_multipliers[encoder0Pos + 1]
                      /\ UNCHANGED freq_gen
       ELSE UNCHANGED <<encoderValue, freq_gen, gate_time_multiplier>>
  /\ UNCHANGED <<variant, cntVars, tmrVars, encoder0Pos, clicked, set_duty>>

\* void rotary_onButtonClick() of the generator sketch
\* The fill loop of the .ino file stores 60 items into the 2-element
\* buffer (Items); what lies behind the buffer is decided by the linker.
\* Two outcomes are taken: the stores hit nothing that is read again and
\* rmtLoop is handed 60 copies of the pair written (ok = TRUE), or they hit
\* the driver handle freq_gen_rmt_send, declared right behind the buffer,
\* and rmtLoop arms nothing (ok = FALSE, as when rmtInit returns NULL).
rotary_onButtonClick ==
  LET t_dur == Dur(encoder0Pos)
      sd == IF ButtonFeasible(t_dur) THEN NextDuty(set_duty) ELSE set_duty
      duty == IF ButtonFeasible(t_dur) THEN sd ELSE 50
  IN  /\ encoderValue' = encoder0Pos
      /\ set_duty' = sd
      /\ \E ok \in BOOLEAN : freq_gen' = Arm("button", encoder0Pos, duty, ok)
      /\ UNCHANGED <<encoder0Pos, lastReadEncoder0Pos, gate_time_multiplier>>

\* Variant of ResetGateTime: the multiplier is not looked up again.
ResetGateTime_IndexOnly ==
  /\ encoder0Pos' = Clamp(variant, 6)
  /\ lastReadEncoder0Pos' = encoder0Pos'
  /\ encoderValue' = encoder0Pos'
  /\ UNCHANGED <<gate_time_multiplier, set_duty, freq_gen>>

\* gate-time sketch: rotaryEncoder.setEncoderValue(6); encoderValue =
\* rotaryEncoder.readEncoder(); gate_time_multiplier = gt_multipliers[encoderValue]
ResetGateTime ==
  /\ encoder0Pos' = Clamp(variant, 6)
  /\ lastReadEncoder0Pos' = encoder0Pos'
  /\ encoderValue' = encoder0Pos'
  /\ gate_time_multiplier' = gt_multipliers[encoderValue' + 1]
  /\ UNCHANGED <<set_duty, freq_gen>>

\* loop(): if (rotaryEncoder.isEncoderButtonClicked()) { ... }
LoopButtonClicked ==
  /\ uipc = "button"
  /\ uipc' = "encoder"
  /\ clicked' = FALSE
  /\ IF clicked
       THEN IF variant = "generator" THEN rotary_onButtonClick
            ELSE ResetGateTime
       ELSE UNCHANGED <<encoder0Pos, lastReadEncoder0Pos, encoderValue,
                        set_duty, gate_time_multiplier, freq_gen>>
  /\ UNCHANGED <<variant, cntVars, tmrVars>>

\* Variant of Persisted: the two variables lose RTC_DATA_ATTR.
Persisted_Nothing(wake, kept, initial) == initial

\* RTC_DATA_ATTR: after a wake from low power the variable keeps its value;
\* after a cold boot it has its initialiser.
Persisted(wake, kept, initial) == IF wake THEN kept ELSE initial

\* A reset followed by setup().  Every variable without RTC_DATA_ATTR has
\* its initialiser again, the peripherals are in their reset state.
\* setup() seeds the encoder from encoderValue and reads it back, starts
\* the counters and the gate timer; it does not arm the waveform driver.
Reset(wake) ==
  LET ev == Persisted(wake, encoderValue, DefaultIndex(variant))
  IN  /\ encoder0Pos' = Clamp(variant, ev)
      /\ lastReadEncoder0Pos' = encoder0Pos'
      /\ encoderValue' = encoder0Pos'
      /\ set_duty' = Persisted(wake, set_duty, DefaultDuty)
      /\ gate_time_multiplier' = DefaultMultiplier
      /\ freq_gen' = NotArmed
      /\ clicked' = FALSE
      /\ uipc' = "encoder"
      /\ gate' = FALSE
      /\ cnt' = [u \in Units |-> 0]
      /\ int_st' = [u \in Units |-> FALSE]
      /\ gpio_intr' = FALSE
      /\ noverflow0' = 0
      /\ noverflow1' = 0
      /\ reading' = NoReading
      /\ ready' = FALSE
      /\ pc' = "check"
      /\ n_ref' = 0
      /\ n_sig' = 0
      /\ serial_out' = NoOutput
      /\ precision' = 0
      /\ win' = [u \in Units |-> 0]
      /\ bursts' = 0
      /\ windows' = 0
      /\ snapTrue' = [u \in Units |-> 0]
      /\ seen' = NoReading
      /\ fresh' = FALSE
      /\ snaps' = 0
      /\ loaded' = {}
      /\ used' = 0
      /\ pulses' = [u \in Units |-> 0]
      /\ taken' = [u \in Units |-> 0]
      /\ last' = FALSE
      /\ timer_us' = MIN_GATE_TIME * DefaultMultiplier
      /\ fired' = FALSE
      /\ pending' = 1
      /\ UNCHANGED variant

NextGen ==
  \/ \E dir \in {-1, 1} : Rotate(dir)
  \/ ButtonPress
  \/ LoopEncoderChanged
  \/ LoopButtonClicked
  \/ \E wake \in BOOLEAN : Reset(wake)

SpecGen == Init /\ [][NextGen]_vars

----------------------------------------------------------------------------
(* Gate timer *)

\* Values standing for the results of random(500), which lie in 0 .. 499
Random500 == {0, 1, 250, 499}

\* Variant of GateDelay: the jitter drawn from twice the range.
GateDelay_Wide(mult, jitter) == MIN_GATE_TIME * mult + 2 * jitter

\* MIN_GATE_TIME*gate_time_multiplier+random(500)
GateDelay(mult, jitter) == MIN_GATE_TIME * mult + jitter

\* Variant of StartOnce: the timer is not started.
StartOnce_Skipped(n) == n

\* esp_timer_start_once(timer, ...): one more timer is pending
StartOnce(n) == n + 1

\* static void timer_callback(void*): a pending one-shot timer fires; toggle
\* the gate output line and start the one-shot timer again.
timer_callback ==
  /\ pending > 0
  /\ last' = ~last
  /\ \E jitter \in Random500 :
        timer_us' = GateDelay(gate_time_multiplier, jitter)
  /\ fired' = TRUE
  /\ pending' = StartOnce(pending - 1)
  /\ UNCHANGED <<variant, cntVars, uiVars>>

\* The gate timer and the code that changes gate_time_multiplier: the user
\* interface of the gate-time sketch (the generator sketch never assigns
\* it).
NextTimer ==
  \/ timer_callback
  \/ variant = "gatetime" /\ NextGen

SpecTimer == Init /\ [][NextTimer]_vars

\* A pending one-shot timer fires when its delay has passed.
SpecTimerFair == SpecTimer /\ WF_vars(timer_callback)

----------------------------------------------------------------------------
(* Properties *)

RefTotal(r) == r.noverflow0 * L + r.count0

SigTotal(r) == r.noverflow1 * L + r.count1

\* C1: the snapshot of a gate window satisfies noverflow*L + count == the
\* pulses the counter received while the window was open, for the reference
\* and for the signal counter, whatever the order in which a raised overflow
\* interrupt and the gate-fall interrupt are serviced.
C1_SnapshotEqualsWindowPulses ==
  /\ RefTotal(reading) = snapTrue[0]
  /\ SigTotal(reading) = snapTrue[1]

\* C2: a published frequency equals (sigTotal/refTotal)*reference; for
\* reference 10001305.4, sigTotal 5 and refTotal 10001339 the published
\* value is 4.9999832 to 7 decimals, for refTotal 10004615 it is 4.9983459.
C2_PublishedFrequencyExamples ==
  (pc = "clear" /\ variant = "generator" /\ n_sig = 5) =>
     /\ n_ref = 10001339 => F32Decimals(serial_out, 7) = 49999832
     /\ n_ref = 10004615 => F32Decimals(serial_out, 7) = 49983459

\* C3: when the consumed snapshot has refTotal == 0, loop() publishes no
\* frequency in that cycle, whatever sigTotal is.
C3_NoPublishWithoutReference ==
  (pc = "clear" /\ n_ref = 0) => serial_out = NoOutput

\* C4: for a table row whose half period d is not inside 40 < d < 18000, the
\* driver is armed with on == off == d, on the rotation path and on the
\* button path, whatever duty is stored.
C4_InfeasibleIsFiftyPercent ==
  (freq_gen.armed /\ ~(40 < freq_gen.dur /\ freq_gen.dur < 18000)) =>
     /\ freq_gen.on = freq_gen.dur
     /\ freq_gen.off = freq_gen.dur

\* C5 as claimed: for a feasible row and an effective duty p, the driver is
\* armed with on = round(2*d*p/100) and off = 2*d - on.
C5_OnIsRounded ==
  (freq_gen.armed /\ 40 < freq_gen.dur /\ freq_gen.dur < 18000) =>
     /\ freq_gen.on = (2 * freq_gen.dur * freq_gen.duty + 50) \div 100
     /\ freq_gen.off = 2 * freq_gen.dur - freq_gen.on

\* C5 as amended: for a feasible row and an effective duty p, on is
\* 2*d*p/100 truncated to an integer, or one less when 2*d*p/100 is itself
\* an integer that the float computation falls just short of, and
\* off = 2*d - on; d = 4078 with p = 60 gives on = 4893 and off = 3263.
C5_OnIsTruncated ==
  (freq_gen.armed /\ 40 < freq_gen.dur /\ freq_gen.dur < 18000) =>
     LET x == 2 * freq_gen.dur * freq_gen.duty
     IN  /\ freq_gen.duty \in {10, 20, 30, 40, 50, 60, 70, 80, 90}
         /\ \/ freq_gen.on = x \div 100
            \/ freq_gen.on = x \div 100 - 1 /\ x % 100 = 0
         /\ freq_gen.off = 2 * freq_gen.dur - freq_gen.on
         /\ (freq_gen.dur = 4078 /\ freq_gen.duty = 60) =>
              (freq_gen.on = 4893 /\ freq_gen.off = 3263)

C5_Witness ==
  /\ freq_gen.armed
  /\ freq_gen.dur = 4078
  /\ freq_gen.duty = 60
  /\ freq_gen.on = 4893

\* C6: whenever the effective duty is 50%, the driver is armed with
\* int(t_on) == int(t_off) == d, for every table row.
C6_FiftyPercentIsHalfPeriod ==
  (freq_gen.armed /\ freq_gen.duty = 50) =>
     /\ freq_gen.on = freq_gen.dur
     /\ freq_gen.off = freq_gen.dur

\* A step of loop() that runs rotary_onButtonClick
ButtonStep ==
  /\ variant = "generator"
  /\ uipc = "button"
  /\ clicked
  /\ uipc' = "encoder"
  /\ freq_gen'.by = "button"

\* C7 as claimed: every button press, at whatever index, advances the stored
\* set_duty by one step of the cycle 10, 20, ..., 90, 10.
C7_EveryPressAdvances ==
  [][ButtonStep => set_duty' = IF set_duty = 90 THEN 10 ELSE set_duty + 10]_vars

\* C7 as amended: a button press at a feasible index (40 < d < 18000)
\* advances the stored set_duty by one step of the cycle 10, 20, ..., 90, 10
\* and arms the driver with the new value; a press at any other index
\* leaves set_duty unchanged and arms the driver with 50%.
C7_PressAdvancesWhenFeasible ==
  [][ButtonStep =>
       IF 40 < freq_gen'.dur /\ freq_gen'.dur < 18000
         THEN /\ set_duty' = IF set_duty = 90 THEN 10 ELSE set_duty + 10
              /\ freq_gen'.duty = set_duty'
         ELSE /\ set_duty' = set_duty
              /\ freq_gen'.duty = 50]_vars

C7_Witness ==
  /\ freq_gen.armed
  /\ freq_gen.by = "button"
  /\ freq_gen.dur > 18000
  /\ freq_gen.duty = 50
  /\ set_duty = 90

\* C8: the selected index, and every index used for a params[] (generator)
\* or gt_multipliers[] (gate time) lookup, stays within [0, 347]
\* respectively [0, 9]; turning the knob down at index 0 leaves it at 0 and
\* turning it up at the last index leaves it there.
C8_IndexClamped ==
  /\ [](/\ encoderValue \in 0..MaxIndex(variant)
        /\ encoder0Pos \in 0..MaxIndex(variant)
        /\ freq_gen.armed => freq_gen.index \in 0..347
        /\ variant = "generator" => MaxIndex(variant) = NPARAMS - 1
        /\ variant = "gatetime" => MaxIndex(variant) = Len(gt_multipliers) - 1)
  /\ [][/\ (Rotate(-1) /\ encoder0Pos = 0) => encoder0Pos' = 0
        /\ (Rotate(1) /\ encoder0Pos = MaxIndex(variant))
              => encoder0Pos' = MaxIndex(variant)]_vars

C8_Witness ==
  /\ variant = "generator"
  /\ encoder0Pos = 347
  /\ freq_gen.armed
  /\ freq_gen.index = 347
  /\ encoderValue = 347

\* C9: the frequency loop() publishes is computed from one snapshot, the
\* most recent one: the one pending when loop() found ready set, or a later
\* one that has overwritten it.
C9_PublishedFromLatestSnapshot ==
  (pc = "clear") =>
     \/ n_ref = RefTotal(reading) /\ n_sig = SigTotal(reading)
     \/ n_ref = RefTotal(seen) /\ n_sig = SigTotal(seen)

\* C10: loop()'s "ready = false" never discards a snapshot that was
\* published while loop() was processing the previous one: when loop() is
\* back at "if (ready)" and a snapshot was published from which it has not
\* computed a frequency, ready is still set.
C10_UnconsumedSnapshotStaysReady ==
  (pc = "check" /\ fresh) => ready


\* C11: exactly one snapshot is taken per gate cycle: every synchronized
\* window that has been opened and closed has had isr run exactly once for
\* its falling edge, so the number of snapshots equals the number of
\* windows opened, less the one that is still open or whose falling edge
\* waits for isr; between two snapshots the window was open exactly once.
C11_OneSnapshotPerGateCycle ==
  snaps + (IF gate \/ gpio_intr THEN 1 ELSE 0) = windows

C11_Witness ==
  /\ snaps = 2
  /\ windows = 2
  /\ ~gate
  /\ ~gpio_intr

\* C12: a counter's overflow tally is incremented exactly once for each
\* event of that counter reaching L (the event is raised once, and
\* servicing it adds one to that counter's tally and to no other), it
\* never decreases except to zero in isr, and nothing else changes it.
C12_TallyCountsOverflowEvents ==
  [][/\ \A u \in Units :
          (win'[u] > win[u] /\ cnt[u] + (win'[u] - win[u]) >= L)
             => (~int_st[u] /\ int_st'[u])
     /\ (int_st[0] /\ ~int_st'[0]) => noverflow0' = noverflow0 + 1
     /\ (int_st[1] /\ ~int_st'[1]) => noverflow1' = noverflow1 + 1
     /\ noverflow0' # noverflow0 =>
          \/ noverflow0' = noverflow0 + 1 /\ int_st[0] /\ ~int_st'[0]
          \/ noverflow0' = 0 /\ gpio_intr /\ ~gpio_intr' /\ ready'
     /\ noverflow1' # noverflow1 =>
          \/ noverflow1' = noverflow1 + 1 /\ int_st[1] /\ ~int_st'[1]
          \/ noverflow1' = 0 /\ gpio_intr /\ ~gpio_intr' /\ ready']_vars

C12_Witness ==
  /\ noverflow0 = 1
  /\ noverflow1 = 1
  /\ \A u \in Units : ~int_st[u]

\* C13: at every snapshot both stored counts satisfy 0 <= count < L, so
\* that total = overflow*L + count decomposes uniquely; a snapshot with two
\* overflow events and a final count of 150 gives loop() the total 40150.
C13_SnapshotCountsBelowLimit ==
  /\ reading.count0 \in 0..(L - 1)
  /\ reading.count1 \in 0..(L - 1)
  /\ RefTotal(reading) \div L = reading.noverflow0
  /\ RefTotal(reading) % L = reading.count0
  /\ SigTotal(reading) \div L = reading.noverflow1
  /\ SigTotal(reading) % L = reading.count1
  /\ (pc = "rd_noverflow1" /\ seen = reading /\ reading.noverflow0 = 2
        /\ reading.count0 = 150) => n_ref = 40150

C13_Witness ==
  /\ pc = "rd_noverflow1"
  /\ reading.noverflow0 = 2
  /\ reading.count0 = 150
  /\ n_ref = 40150

\* A firing of the gate timer
TimerStep == fired' /\ (last' # last \/ timer_us' # timer_us \/ ~fired)

\* C14: every start of the gate timer uses a delay of
\* MIN_GATE_TIME*gate_time_multiplier plus a jitter in 0..499 microseconds;
\* the first start, in setup, has no jitter; every firing of the timer
\* toggles the gate output line once; nothing else changes the line or the
\* delay.
C14_GateTimerDelayAndToggle ==
  /\ [](~fired => (~last /\ timer_us = MIN_GATE_TIME * DefaultMultiplier))
  /\ [][/\ TimerStep =>
            /\ last' = ~last
            /\ timer_us' - MIN_GATE_TIME * gate_time_multiplier \in 0..499
        /\ (last' # last \/ timer_us' # timer_us) => (TimerStep \/ ~fired')]_vars

C14_Witness ==
  /\ variant = "gatetime"
  /\ fired
  /\ last
  /\ gate_time_multiplier = 2000
  /\ timer_us = 2000499

C17_RearmFailureIsLogged ==
  (freq_gen.by # "none" /\ ~freq_gen.armed) =>
     freq_gen.log = "init sender1 failed"

\* C18: for a positive frequency f the generator sketch prints
\* max(0, 8 - floor(log10(f)) - 1) digits after the decimal point, also for
\* f < 1.
C18_FractionDigits ==
  (pc = "clear" /\ variant = "generator" /\ serial_out.k = "num") =>
     precision = (IF 8 - FloorLog10(serial_out) - 1 < 0 THEN 0
                  ELSE 8 - FloorLog10(serial_out) - 1)

\* C19: set_duty is always one of 10, 20, ..., 90, and only the button
\* handler changes it (a cold boot starts again from the default 50).
C19_DutyInCycleChangedByButtonOnly ==
  /\ [](set_duty \in {10, 20, 30, 40, 50, 60, 70, 80, 90})
  /\ [][set_duty' # set_duty =>
          (ButtonStep \/ (Reset(FALSE) /\ set_duty' = DefaultDuty))]_vars

C19_Witness ==
  /\ set_duty = 10
  /\ freq_gen.by = "button"
  /\ freq_gen.duty = 10
  /\ encoder0Pos # lastReadEncoder0Pos

\* A step of the gate-time sketch's loop() that handles a button click
GateTimeButtonStep == variant = "gatetime" /\ clicked /\ LoopButtonClicked

----------------------------------------------------------------------------
\* C21: the params table has 348 rows in strictly ascending order of the
\* nominal frequency, from 5 Hz in row 0 to 5 MHz in row 347; hence a
\* selection that moves to a higher index moves to a higher nominal
\* frequency, and one that moves to a lower index to a lower one.  (The two
\* source files hold the same first three columns.)
TableAscending ==
  /\ NPARAMS = 348
  /\ Nominal(0) = 5
  /\ Nominal(NPARAMS - 1) = 5000000
  /\ \A i \in 0..(NPARAMS - 2) : Nominal(i) < Nominal(i + 1)

C21_TableSortedByNominalFrequency ==
  /\ [](TableAscending)
  /\ [][variant = "generator" =>
          /\ encoderValue' > encoderValue =>
                Nominal(encoderValue') > Nominal(encoderValue)
          /\ encoderValue' < encoderValue =>
                Nominal(encoderValue') < Nominal(encoderValue)]_vars

C21_Witness ==
  /\ variant = "generator"
  /\ encoderValue = NPARAMS - 1
  /\ freq_gen.by = "rotation"
  /\ freq_gen.index = NPARAMS - 1
  /\ Nominal(freq_gen.index) = 5000000

----------------------------------------------------------------------------
\* C22: no torn read.  The reference total and the signal total that loop()
\* uses in one frequency computation are those of one and the same value of
\* the snapshot, also when isr runs between the loads.
C22_NoTornSnapshotRead ==
  pc = "compute" =>
    \E s \in loaded : n_ref = RefTotal(s) /\ n_sig = SigTotal(s)

----------------------------------------------------------------------------
\* C23: no snapshot is consumed twice.  Whenever loop() computes a
\* frequency, isr has run since the previous computation (and has run at
\* all before the first one).
ComputeStep == pc = "compute" /\ pc' = "clear"

C23_NoSnapshotConsumedTwice ==
  [][ComputeStep => snaps > used /\ used' = snaps]_vars

\* loop() has computed a second frequency, from the second snapshot
C23_Witness ==
  /\ pc = "clear"
  /\ used = 2
  /\ snaps = 2
  /\ n_ref = 150
  /\ reading.count0 = 150

----------------------------------------------------------------------------
\* C24: single writer.  The overflow tallies are written by the overflow
\* interrupt handler only, the snapshot and the ready flag by isr only.
C24_SingleWriterPerField ==
  [][/\ (noverflow0' # noverflow0 \/ noverflow1' # noverflow1)
          => pcnt_intr_handler
     /\ reading' # reading => isr
     /\ ready' # ready => isr]_vars

----------------------------------------------------------------------------
\* C25: isr pauses and reads the counters, copies counts and tallies into
\* the snapshot, zeroes the tallies, clears and resumes the counters and
\* sets ready last.  Hence ready is set only by a step that has stored the
\* four values the counters and tallies had when the window closed and has
\* left both counters and both tallies at zero; the step after which the
\* gate-fall interrupt is serviced is such a step.
SnapshotStep == gpio_intr /\ ~gpio_intr'

SnapshotComplete ==
  /\ reading' = [count0 |-> cnt[0], noverflow0 |-> noverflow0,
                 count1 |-> cnt[1], noverflow1 |-> noverflow1]
  /\ noverflow0' = 0
  /\ noverflow1' = 0
  /\ cnt' = [u \in Units |-> 0]
  /\ ready'

C25_ReadySetAfterSnapshotComplete ==
  [][/\ SnapshotStep => SnapshotComplete
     /\ (ready' /\ ~ready) => (SnapshotStep /\ SnapshotComplete)]_vars

\* the second snapshot holds the counts of the second window: the counters
\* counted again after the first run of isr
C25_Witness ==
  /\ ready
  /\ snaps = 2
  /\ reading.count0 = 150
  /\ reading.count1 = 150
  /\ cnt = [u \in Units |-> 0]
  /\ snapTrue = [u \in Units |-> 150]

----------------------------------------------------------------------------
\* C27 as claimed: while the synchronized window is low, a counter value
\* changes only by the clear in isr and a tally only by the zeroing in isr.
C27_NothingChangesWhileGateLow ==
  [][~gate =>
       /\ cnt' # cnt => (SnapshotStep /\ cnt' = [u \in Units |-> 0])
       /\ noverflow0' # noverflow0 => (SnapshotStep /\ noverflow0' = 0)
       /\ noverflow1' # noverflow1 => (SnapshotStep /\ noverflow1' = 0)]_vars

\* C27 as amended: while the window is low, a counter value changes only by
\* the clear in isr and no overflow interrupt is raised; a tally changes
\* only by the zeroing in isr or by one, when the handler services an
\* overflow interrupt that was raised while the window was high.
C27_CountersFrozenWhileGateLow ==
  [][~gate =>
       /\ cnt' # cnt => (SnapshotStep /\ cnt' = [u \in Units |-> 0])
       /\ \A u \in Units : int_st'[u] => int_st[u]
       /\ noverflow0' # noverflow0 =>
             \/ SnapshotStep /\ noverflow0' = 0
             \/ int_st[0] /\ ~int_st'[0] /\ noverflow0' = noverflow0 + 1
       /\ noverflow1' # noverflow1 =>
             \/ SnapshotStep /\ noverflow1' = 0
             \/ int_st[1] /\ ~int_st'[1] /\ noverflow1' = noverflow1 + 1]_vars

\* the window is low, isr has run and the handler has then counted the
\* overflow of the closed window
C27_Witness ==
  /\ ~gate
  /\ windows = 1
  /\ snaps = 1
  /\ reading.noverflow0 = 0
  /\ noverflow0 = 1
  /\ cnt[0] = 0
  /\ ~int_st[0]

----------------------------------------------------------------------------
\* C26: the gate timer re-arms itself for ever.  At all times exactly one
\* gate timer is pending, and the gate output line is high infinitely often
\* and low infinitely often.
C26_GateTimerRunsForEver ==
  /\ [](pending = 1)
  /\ []<>last
  /\ []<>(~last)

\* the timer has fired, the line is low again and the timer is pending
C26_Witness ==
  /\ fired
  /\ ~last
  /\ pending = 1
  /\ timer_us = MIN_GATE_TIME * gate_time_multiplier + 499

----------------------------------------------------------------------------
\* C28: once loop() has handled a rotation or a button press, what the
\* waveform driver was armed with is the tick, the on count and the off
\* count of one table row, the row of the current selected index; nothing
\* of an earlier configuration is left.
RowItems ==
  [i \in 0..(NPARAMS - 1) |->
     [duty \in {10, 20, 30, 40, 50, 60, 70, 80, 90} |->
        [on |-> Duration(OnTicks(Dur(i), duty)),
         off |-> Duration(OffTicks(Dur(i), duty))]]]

C28_ArmedFromRowOfSelectedIndex ==
  (variant = "generator" /\ freq_gen.by # "none") =>
    /\ freq_gen.index = encoderValue
    /\ freq_gen.tick = Tick(encoderValue)
    /\ freq_gen.dur = Dur(encoderValue)
    /\ freq_gen.on = RowItems[encoderValue][freq_gen.duty].on
    /\ freq_gen.off = RowItems[encoderValue][freq_gen.duty].off

\* the knob was turned from row 185 (tick 3) to row 184 (tick 17)
C28_Witness ==
  /\ variant = "generator"
  /\ freq_gen.armed
  /\ freq_gen.by = "rotation"
  /\ encoderValue = 184
  /\ freq_gen.tick = 17
  /\ freq_gen.on = 2377
  /\ freq_gen.off = 2377

----------------------------------------------------------------------------
\* C29: in the gate-time sketch the number of digits printed after the
\* decimal point is max(0, digits(refTotal) - digits(integer part of the
\* frequency)).  An integer part of 0 is taken to have one digit or none,
\* whichever fits.
ClampAtZero(p) == IF p < 0 THEN 0 ELSE p

C29_GateTimeFractionDigits ==
  (pc = "clear" /\ variant = "gatetime" /\ n_ref > 0) =>
     LET d == IntDigits(n_ref)
         ip == F32ToInt(serial_out)
     IN  IF ip > 0 THEN precision = ClampAtZero(d - IntDigits(ip))
         ELSE precision \in {ClampAtZero(d - 1), d}

----------------------------------------------------------------------------
\* C30: conservation.  For each counter, the totals of all snapshots taken
\* so far, plus the current tally times L, plus the current counter value
\* (plus L for an overflow whose interrupt is raised and not yet serviced),
\* is the number of pulses the counter has received while the window was
\* open.
Tally(u) == IF u = 0 THEN noverflow0 ELSE noverflow1

InFlight(u) == IF int_st[u] THEN L ELSE 0

----------------------------------------------------------------------------
\* C31: on both paths and for every row and stored duty, the on and off
\* tick counts handed to the driver add up to twice the row's on/off
\* duration, so the duty never changes the period.
C31_OnPlusOffIsPeriod ==
  (variant = "generator" /\ freq_gen.by # "none") =>
    /\ freq_gen.dur = Dur(freq_gen.index)
    /\ freq_gen.on + freq_gen.off = 2 * freq_gen.dur

\* row 187 (duration 16669) armed at 90 % by the button: 30004 + 3334
C31_Witness ==
  /\ variant = "generator"
  /\ freq_gen.by = "button"
  /\ freq_gen.index = 187
  /\ freq_gen.duty = 90
  /\ freq_gen.on = 30004
  /\ freq_gen.off = 3334

----------------------------------------------------------------------------
\* C32: for every row and every stored duty in 10..90 the on and off tick
\* counts computed on either path are at least 1 and at most 32767, so
\* the 15-bit duration fields of the item hold them unchanged.
Ticks ==
  [i \in 0..(NPARAMS - 1) |->
     [duty \in {10, 20, 30, 40, 50, 60, 70, 80, 90} |->
        [on |-> OnTicks(Dur(i), duty), off |-> OffTicks(Dur(i), duty)]]]

C32_TicksFitDurationField ==
  (variant = "generator" /\ freq_gen.by # "none") =>
    LET t == Ticks[freq_gen.index][freq_gen.duty]
    IN  /\ t.on \in 1..32767
        /\ t.off \in 1..32767
        /\ freq_gen.on = t.on
        /\ freq_gen.off = t.off

\* a row with the longest duration of the table, 32684, is armed at 50 %
\* while the stored duty is 90
C32_Witness ==
  /\ variant = "generator"
  /\ freq_gen.by = "rotation"
  /\ freq_gen.dur = 32684
  /\ set_duty = 90
  /\ freq_gen.duty = 50
  /\ freq_gen.on \in 1..32767
  /\ freq_gen.off \in 1..32767

----------------------------------------------------------------------------
\* C33: every write to freq_gen_bit_data stays inside its 2 elements and
\* rmtLoop is never given more items than the buffer holds, on both
\* paths; the writes to bit_data stay inside that buffer as well.
C33_ItemBufferNotOverrun ==
  /\ RefItems <= bit_data_length
  /\ (variant = "generator" /\ freq_gen.by # "none") =>
       freq_gen.items <= freq_gen_bit_data_length

----------------------------------------------------------------------------
\* C34: when setup has completed, after a cold boot or a wake, the waveform
\* driver is armed with the row of the persisted index and the persisted
\* duty, also when no rotation or button event has been handled since.
C34_ArmedAfterSetup ==
  [][((Reset(TRUE) \/ Reset(FALSE)) /\ variant = "generator") =>
       /\ freq_gen'.armed
       /\ freq_gen'.index = encoderValue'
       /\ freq_gen'.tick = Tick(encoderValue')
       /\ freq_gen'.duty \in {50, set_duty'}]_vars

----------------------------------------------------------------------------
\* A step of loop() that handles a turn of the knob in the generator sketch
RotationStep ==
  /\ variant = "generator"
  /\ uipc = "encoder"
  /\ encoder0Pos # lastReadEncoder0Pos
  /\ uipc' = "button"
  /\ freq_gen'.by = "rotation"

\* C35: handling a rotation never changes the stored set_duty: at an
\* infeasible row the driver is armed with 50 % and the stored value is
\* kept, and at a feasible row (40 < d < 18000) the driver is armed with
\* the stored value again.
C35_RotationKeepsStoredDuty ==
  [][RotationStep =>
       /\ set_duty' = set_duty
       /\ (40 < freq_gen'.dur /\ freq_gen'.dur < 18000)
            => freq_gen'.duty = set_duty
       /\ (freq_gen'.dur < 40 \/ freq_gen'.dur > 18000)
            => freq_gen'.duty = 50]_vars

\* the knob has come from row 186 (duration 18184, armed with 50 %) to row
\* 187 and the stored 70 % is applied again
C35_Witness ==
  /\ variant = "generator"
  /\ freq_gen.armed
  /\ freq_gen.by = "rotation"
  /\ freq_gen.index = 187
  /\ freq_gen.duty = 70
  /\ set_duty = 70
  /\ uipc = "button"

----------------------------------------------------------------------------
\* C36: a button press at an infeasible row (d <= 40 or d >= 18000) leaves
\* the stored set_duty unchanged and arms the driver with on == off == d.
C36_PressAtInfeasibleRow ==
  [][(ButtonStep /\ (freq_gen'.dur <= 40 \/ freq_gen'.dur >= 18000)) =>
       /\ set_duty' = set_duty
       /\ freq_gen'.on = freq_gen'.dur
       /\ freq_gen'.off = freq_gen'.dur]_vars

----------------------------------------------------------------------------
\* C37: in the gate-time sketch every start of the gate timer after setup,
\* also after a wake with a persisted index other than 6, uses the
\* multiplier gt_multipliers[encoderValue], one of 1, 5, 10, 50, 100, 500,
\* 1000, 2000, 5000, 10000.
C37_MultiplierOfSelectedIndex ==
  [][(variant = "gatetime" /\ TimerStep) =>
       /\ gate_time_multiplier = gt_multipliers[encoderValue + 1]
       /\ gate_time_multiplier \in
            {1, 5, 10, 50, 100, 500, 1000, 2000, 5000, 10000}
       /\ timer_us' - MIN_GATE_TIME * gt_multipliers[encoderValue + 1]
            \in 0..499]_vars

----------------------------------------------------------------------------
\* C38: in the generator sketch a computation from sigTotal = 0 and
\* refTotal > 0 (frequency exactly 0) publishes nothing, neither on the
\* display nor on the log, and loop() still clears ready at the end of the
\* block.
C38_ZeroFrequencyPublishesNothing ==
  /\ []((variant = "generator" /\ pc = "clear" /\ n_sig = 0 /\ n_ref > 0)
          => serial_out = NoOutput)
  /\ [][(variant = "generator" /\ pc = "clear" /\ n_sig = 0 /\ n_ref > 0
           /\ pc' # pc) => (pc' = "check" /\ ~ready')]_vars

\* the first snapshot, 150 reference pulses and no signal pulse, has been
\* used for a computation and loop() is back at "if (ready)"
C38_Witness ==
  /\ variant = "generator"
  /\ pc = "check"
  /\ ~ready
  /\ snaps = 1
  /\ used = 1
  /\ RefTotal(reading) = 150
  /\ SigTotal(reading) = 0
  /\ serial_out = NoOutput
====
